---------------------------- MODULE Spec2Model ----------------------------
(***************************************************************************)
(* A model of fix-encoding.py: the mojibake repair pipeline                *)
(* (fix_mojibake_segment, fix_line_segments, fix_encoding, the two         *)
(* substitution tables, scan_remaining_issues) and the file driver         *)
(* (fix_file, main).                                                       *)
(*                                                                         *)
(* A Python str is a sequence of code points (naturals); a bytes object is *)
(* a sequence of naturals below 256.  An operation that may raise          *)
(* UnicodeEncodeError / UnicodeDecodeError returns a record                *)
(* [ok |-> BOOLEAN, val |-> sequence]; ok = FALSE is the raised exception. *)
(***************************************************************************)
EXTENDS Integers, Sequences, FiniteSets, TLC

(***************************************************************************)
(* Bounds of the model.                                                    *)
(***************************************************************************)
\* longest text enumerated over an alphabet
MaxLen == 4
\* longest argument list (sys.argv[1:]) enumerated
MaxArgs == 3

(***************************************************************************)
(* Python codecs.                                                          *)
(***************************************************************************)
Fail == [ok |-> FALSE, val |-> <<>>]

Ok(v) == [ok |-> TRUE, val |-> v]

\* The printable characters Windows-1252 puts in 0x80-0x9F, as code point :> byte.
\* Bytes 0x81, 0x8D, 0x8F, 0x90 and 0x9D have no character.
Cp1252Special ==
    (8364 :> 128) @@ (8218 :> 130) @@ (402 :> 131) @@ (8222 :> 132) @@
    (8230 :> 133) @@ (8224 :> 134) @@ (8225 :> 135) @@ (710 :> 136) @@
    (8240 :> 137) @@ (352 :> 138) @@ (8249 :> 139) @@ (338 :> 140) @@
    (381 :> 142) @@ (8216 :> 145) @@ (8217 :> 146) @@ (8220 :> 147) @@
    (8221 :> 148) @@ (8226 :> 149) @@ (8211 :> 150) @@ (8212 :> 151) @@
    (732 :> 152) @@ (8482 :> 153) @@ (353 :> 154) @@ (8250 :> 155) @@
    (339 :> 156) @@ (382 :> 158) @@ (376 :> 159)

\* One character under a codec: its byte, or -1 when the codec has no byte for it.
EncodeChar(codec, c) ==
    IF c < 128 THEN c
    ELSE IF codec = "latin-1" THEN (IF c <= 255 THEN c ELSE -1)
    ELSE IF c >= 160 /\ c <= 255 THEN c
    ELSE IF c \in DOMAIN Cp1252Special THEN Cp1252Special[c]
    ELSE -1

\* text.encode(codec)
Encode(codec, text) ==
    IF \A i \in 1..Len(text) : EncodeChar(codec, text[i]) >= 0
    THEN Ok([i \in 1..Len(text) |-> EncodeChar(codec, text[i])])
    ELSE Fail

\* One byte decoded as Windows-1252: its character, or -1 for the five bytes
\* that have none.
DecodeCp1252Byte(b) ==
    IF b < 128 \/ b >= 160 THEN b
    ELSE IF \E c \in DOMAIN Cp1252Special : Cp1252Special[c] = b
         THEN CHOOSE c \in DOMAIN Cp1252Special : Cp1252Special[c] = b
         ELSE -1

IsCont(b) == b >= 128 /\ b <= 191

\* Length of the well-formed UTF-8 sequence starting at b[i], 0 when there is
\* none (Python's strict decoder: no overlong forms, no surrogates, nothing
\* above U+10FFFF, no truncation).
Utf8SeqLen(b, i) ==
    LET n  == Len(b)
        b0 == b[i]
        b1 == IF i + 1 <= n THEN b[i + 1] ELSE -1
        b2 == IF i + 2 <= n THEN b[i + 2] ELSE -1
        b3 == IF i + 3 <= n THEN b[i + 3] ELSE -1
    IN  IF b0 < 128 THEN 1
        ELSE IF b0 >= 194 /\ b0 <= 223
             THEN (IF IsCont(b1) THEN 2 ELSE 0)
        ELSE IF b0 = 224
             THEN (IF b1 >= 160 /\ b1 <= 191 /\ IsCont(b2) THEN 3 ELSE 0)
        ELSE IF b0 = 237
             THEN (IF b1 >= 128 /\ b1 <= 159 /\ IsCont(b2) THEN 3 ELSE 0)
        ELSE IF b0 >= 225 /\ b0 <= 239
             THEN (IF IsCont(b1) /\ IsCont(b2) THEN 3 ELSE 0)
        ELSE IF b0 = 240
             THEN (IF b1 >= 144 /\ b1 <= 191 /\ IsCont(b2) /\ IsCont(b3) THEN 4 ELSE 0)
        ELSE IF b0 >= 241 /\ b0 <= 243
             THEN (IF IsCont(b1) /\ IsCont(b2) /\ IsCont(b3) THEN 4 ELSE 0)
        ELSE IF b0 = 244
             THEN (IF b1 >= 128 /\ b1 <= 143 /\ IsCont(b2) /\ IsCont(b3) THEN 4 ELSE 0)
        ELSE 0

\* The code point of the n-byte sequence starting at b[i].
Utf8CodePoint(b, i, n) ==
    IF n = 1 THEN b[i]
    ELSE IF n = 2 THEN (b[i] - 192) * 64 + (b[i + 1] - 128)
    ELSE IF n = 3 THEN (b[i] - 224) * 4096 + (b[i + 1] - 128) * 64 + (b[i + 2] - 128)
    ELSE (b[i] - 240) * 262144 + (b[i + 1] - 128) * 4096
         + (b[i + 2] - 128) * 64 + (b[i + 3] - 128)

RECURSIVE DecodeUtf8From(_, _)
DecodeUtf8From(b, i) ==
    IF i > Len(b) THEN Ok(<<>>)
    ELSE LET n == Utf8SeqLen(b, i)
         IN  IF n = 0 THEN Fail
             ELSE LET rest == DecodeUtf8From(b, i + n)
                  IN  IF rest.ok
                      THEN Ok(<<Utf8CodePoint(b, i, n)>> \o rest.val)
                      ELSE Fail

\* bytes.decode('utf-8')
DecodeUtf8(b) == DecodeUtf8From(b, 1)

\* The UTF-8 bytes of one code point.
Utf8Bytes(c) ==
    IF c < 128 THEN <<c>>
    ELSE IF c < 2048 THEN <<192 + (c \div 64), 128 + (c % 64)>>
    ELSE IF c < 65536
         THEN <<224 + (c \div 4096), 128 + ((c \div 64) % 64), 128 + (c % 64)>>
    ELSE <<240 + (c \div 262144), 128 + ((c \div 4096) % 64),
           128 + ((c \div 64) % 64), 128 + (c % 64)>>

RECURSIVE EncodeUtf8(_)
\* text.encode('utf-8')
EncodeUtf8(text) ==
    IF text = <<>> THEN <<>>
    ELSE Utf8Bytes(Head(text)) \o EncodeUtf8(Tail(text))

\* text.encode(codec).decode('utf-8'): one codec reversal.
Reverse(codec, text) ==
    LET e == Encode(codec, text)
    IN  IF e.ok THEN DecodeUtf8(e.val) ELSE Fail

\* The legacy codecs in the order every loop of the program tries them.
CODECS == <<"cp1252", "latin-1">>


(***************************************************************************)
(* Python str operations the program uses.                                 *)
(***************************************************************************)
\* s[i:i+len(sub)] == sub, 1-based
StartsAt(s, i, sub) ==
    /\ i + Len(sub) - 1 <= Len(s)
    /\ \A k \in 1..Len(sub) : s[i + k - 1] = sub[k]

\* sub in s (sub is never empty in the program)
Contains(s, sub) == \E i \in 1..Len(s) : StartsAt(s, i, sub)

RECURSIVE CountFrom(_, _, _)
CountFrom(s, i, sub) ==
    IF i > Len(s) THEN 0
    ELSE IF StartsAt(s, i, sub) THEN 1 + CountFrom(s, i + Len(sub), sub)
    ELSE CountFrom(s, i + 1, sub)

\* s.count(sub): non-overlapping occurrences, left to right
Count(s, sub) == CountFrom(s, 1, sub)

RECURSIVE ReplaceFrom(_, _, _, _)
ReplaceFrom(s, i, old, new) ==
    IF i > Len(s) THEN <<>>
    ELSE IF StartsAt(s, i, old) THEN new \o ReplaceFrom(s, i + Len(old), old, new)
    ELSE <<s[i]>> \o ReplaceFrom(s, i + 1, old, new)

\* s.replace(old, new)
Replace(s, old, new) == ReplaceFrom(s, 1, old, new)

\* '\n'
NL == <<10>>

RECURSIVE SplitFrom(_, _, _)
SplitFrom(s, i, cur) ==
    IF i > Len(s) THEN <<cur>>
    ELSE IF s[i] = NL[1] THEN <<cur>> \o SplitFrom(s, i + 1, <<>>)
    ELSE SplitFrom(s, i + 1, Append(cur, s[i]))

\* s.split('\n')
Split(s) == SplitFrom(s, 1, <<>>)

RECURSIVE Join(_)
\* '\n'.join(lines)
Join(lines) ==
    IF Len(lines) = 0 THEN <<>>
    ELSE IF Len(lines) = 1 THEN lines[1]
    ELSE lines[1] \o NL \o Join(Tail(lines))

(***************************************************************************)
(* fix_mojibake_segment                                                    *)
(***************************************************************************)
RECURSIVE FixSegmentCodec(_, _)
\* The body of `for codec in [...]` from the k-th codec on.
FixSegmentCodec(text, k) ==
    IF k > Len(CODECS) THEN text
    ELSE LET fixed == Reverse(CODECS[k], text)
         IN  IF fixed.ok
             THEN LET fixed2 == Reverse(CODECS[k], fixed.val)
                  IN  IF /\ fixed2.ok
                         /\ fixed2.val # fixed.val
                         /\ Len(fixed2.val) < Len(fixed.val)
                      THEN fixed2.val
                      ELSE fixed.val
             ELSE FixSegmentCodec(text, k + 1)

\* Variant: the second reversal (the triple-encoding round) is never tried.
fix_mojibake_segment_once(text) ==
    IF Reverse("cp1252", text).ok THEN Reverse("cp1252", text).val
    ELSE IF Reverse("latin-1", text).ok THEN Reverse("latin-1", text).val
    ELSE text

fix_mojibake_segment(text) == FixSegmentCodec(text, 1)

(***************************************************************************)
(* fix_line_segments                                                       *)
(***************************************************************************)
RECURSIVE SegmentEndLead(_, _)
\* Variant: the inner loop tests the outer loop's threshold (0xC0), so a
\* segment stops at the first continuation character.
SegmentEndLead(line, j) ==
    IF j <= Len(line) /\ line[j] >= 192 THEN SegmentEndLead(line, j + 1) ELSE j

RECURSIVE SegmentEnd(_, _)
\* The inner loop: the first j >= i with j past the line or line[j] < 0x80.
SegmentEnd(line, j) ==
    IF j <= Len(line) /\ line[j] >= 128 THEN SegmentEnd(line, j + 1) ELSE j

RECURSIVE LineSegmentsFrom(_, _)
\* The outer loop from position i on (1-based), as the joined result.
LineSegmentsFrom(line, i) ==
    IF i > Len(line) THEN <<>>
    ELSE IF line[i] >= 192
         THEN LET j == SegmentEnd(line, i)
              IN  fix_mojibake_segment(SubSeq(line, i, j - 1))
                      \o LineSegmentsFrom(line, j)
         ELSE <<line[i]>> \o LineSegmentsFrom(line, i + 1)

fix_line_segments(line) == LineSegmentsFrom(line, 1)

(***************************************************************************)
(* fix_encoding                                                            *)
(***************************************************************************)
\* Variant: strategy 1 tries latin-1 only.
FullFileFixLatin1(content, k) ==
    IF Reverse("latin-1", content).ok
       /\ Len(Reverse("latin-1", content).val) < Len(content)
    THEN Reverse("latin-1", content)
    ELSE Fail

RECURSIVE FullFileFix(_, _)
\* Strategy 1 from the k-th codec on: the accepted reversal, or Fail when no
\* codec is accepted.  full_fix.encode('utf-8') cannot raise: a decoded str
\* holds no surrogate.
FullFileFix(content, k) ==
    IF k > Len(CODECS) THEN Fail
    ELSE LET full_fix == Reverse(CODECS[k], content)
         IN  IF full_fix.ok /\ Len(full_fix.val) < Len(content)
             THEN full_fix
             ELSE FullFileFix(content, k + 1)

RECURSIVE LineCodecFix(_, _)
\* Strategy 2 for one line from the k-th codec on: the first codec that does not
\* raise decides the line (candidate, or the line itself when they are equal).
LineCodecFix(line, k) ==
    IF k > Len(CODECS) THEN Fail
    ELSE LET candidate == Reverse(CODECS[k], line)
         IN  IF candidate.ok THEN candidate ELSE LineCodecFix(line, k + 1)

\* One iteration of `for line in lines`: fixed_line.
FixLine(line) ==
    LET b == LineCodecFix(line, 1)
    IN  IF b.ok THEN b.val ELSE fix_line_segments(line)

\* fix_encoding(content): the returned text, the strategy that produced it
\* ("A" full file, "B" line by line with strategy 3 inside) and `changes`.
fix_encoding(content) ==
    LET a == FullFileFix(content, 1)
    IN  IF a.ok
        THEN [text |-> a.val, strategy |-> "A", changes |-> 0]
        ELSE LET lines == Split(content)
                 fixed_lines == [i \in 1..Len(lines) |-> FixLine(lines[i])]
             IN  [text     |-> Join(fixed_lines),
                  strategy |-> "B",
                  changes  |-> Cardinality({i \in 1..Len(lines) :
                                               fixed_lines[i] # lines[i]})]

(***************************************************************************)
(* Console output.  One printed report line is a record: the fixed part of  *)
(* the message, the label or path it names, the characters it shows and    *)
(* the number it shows (0 when it shows none).  show_sample_changes only   *)
(* prints and reads nothing back, so its lines are left out.               *)
(***************************************************************************)
Line(msg, label, what, n) == [msg |-> msg, label |-> label, what |-> what, n |-> n]

(***************************************************************************)
(* The substitution tables and the signature list.                         *)
(***************************************************************************)
\* apply_known_replacements: replacements, in list order
replacements == <<
    [garbled |-> <<226, 339, 8220>>, correct |-> <<10003>>, desc |-> "checkmark"],
    [garbled |-> <<226, 339, 8226>>, correct |-> <<10005>>, desc |-> "X mark"],
    [garbled |-> <<226, 339, 8221>>, correct |-> <<10003>>, desc |-> "checkmark variant"],
    [garbled |-> <<226, 8211, 182>>, correct |-> <<9654>>, desc |-> "triangle right"],
    [garbled |-> <<226, 8224, 8217>>, correct |-> <<8594>>, desc |-> "right arrow"],
    [garbled |-> <<226, 8224, 144>>, correct |-> <<8592>>, desc |-> "left arrow"],
    [garbled |-> <<226, 8364, 8220>>, correct |-> <<8211>>, desc |-> "en dash"],
    [garbled |-> <<226, 8364, 8221>>, correct |-> <<8212>>, desc |-> "em dash"],
    [garbled |-> <<226, 8364, 8482>>, correct |-> <<8217>>, desc |-> "right single quote"],
    [garbled |-> <<226, 8364, 732>>, correct |-> <<8216>>, desc |-> "left single quote"],
    [garbled |-> <<226, 8364, 339>>, correct |-> <<8220>>, desc |-> "left double quote"],
    [garbled |-> <<226, 8364, 157>>, correct |-> <<8221>>, desc |-> "right double quote"],
    [garbled |-> <<226, 8364, 162>>, correct |-> <<8226>>, desc |-> "bullet"],
    [garbled |-> <<226, 8364, 166>>, correct |-> <<8230>>, desc |-> "ellipsis"],
    [garbled |-> <<194, 163>>, correct |-> <<163>>, desc |-> "pound sign"] >>

\* fix_file: control_char_fixes, in dict insertion order
control_char_fixes == <<
    [garbled |-> <<226, 8224, 144>>, correct |-> <<8592>>],
    [garbled |-> <<226, 339, 143, 239, 184, 143>>, correct |-> <<9999, 65039>>],
    [garbled |-> <<226, 339, 143>>, correct |-> <<9999>>],
    [garbled |-> <<226, 353, 160>>, correct |-> <<9888>>],
    [garbled |-> <<226, 353, 161>>, correct |-> <<9889>>],
    [garbled |-> <<226, 376, 179>>, correct |-> <<10227>>] >>

\* scan_remaining_issues: known_garbled
known_garbled == <<
    <<226, 339>>, <<226, 8364>>, <<226, 8211>>, <<226, 8224>>, <<194, 163>>,
    <<195, 162>>, <<195, 169>>, <<195, 168>>, <<195, 402>>, <<195, 8218>> >>

(***************************************************************************)
(* apply_known_replacements, the control-character pass,                   *)
(* scan_remaining_issues                                                   *)
(***************************************************************************)
RECURSIVE KnownReplacementsFrom(_, _, _, _)
\* The loop over `replacements` from entry k on, then the total line.
KnownReplacementsFrom(result, k, total, out) ==
    IF k > Len(replacements)
    THEN [text |-> result,
          log  |-> IF total > 0
                   THEN Append(out, Line("Fallback replacements", "", <<>>, total))
                   ELSE out]
    ELSE LET e == replacements[k]
         IN  IF Contains(result, e.garbled)
             THEN LET count == Count(result, e.garbled)
                  IN  KnownReplacementsFrom(
                          Replace(result, e.garbled, e.correct), k + 1,
                          total + count,
                          Append(out, Line("Replaced", e.desc, e.correct, count)))
             ELSE KnownReplacementsFrom(result, k + 1, total, out)

\* apply_known_replacements(content): the text returned and the lines printed
apply_known_replacements(content) == KnownReplacementsFrom(content, 1, 0, <<>>)

RECURSIVE ControlCharFrom(_, _, _)
\* PASS 2 of fix_file from entry k of control_char_fixes on.
ControlCharFrom(fixed, k, out) ==
    IF k > Len(control_char_fixes) THEN [text |-> fixed, log |-> out]
    ELSE LET e == control_char_fixes[k]
         IN  IF Contains(fixed, e.garbled)
             THEN ControlCharFrom(
                      Replace(fixed, e.garbled, e.correct), k + 1,
                      Append(out, Line("Control char fix", "", e.correct,
                                       Count(fixed, e.garbled))))
             ELSE ControlCharFrom(fixed, k + 1, out)

control_char_pass(fixed) == ControlCharFrom(fixed, 1, <<>>)

RECURSIVE ScanFrom(_, _)
ScanFrom(content, k) ==
    IF k > Len(known_garbled) THEN <<>>
    ELSE IF Contains(content, known_garbled[k])
         THEN <<<<known_garbled[k], Count(content, known_garbled[k])>>>>
                  \o ScanFrom(content, k + 1)
         ELSE ScanFrom(content, k + 1)

\* scan_remaining_issues(content): the (pattern, count) pairs found, in list order
scan_remaining_issues(content) == ScanFrom(content, 1)

RECURSIVE SumCounts(_)
\* sum(c for _, c in found)
SumCounts(found) ==
    IF found = <<>> THEN 0 ELSE Head(found)[2] + SumCounts(Tail(found))

RECURSIVE RemainLines(_)
\* The lines the final scan prints, one per remaining pattern.
RemainLines(found) ==
    IF found = <<>> THEN <<>>
    ELSE <<Line("remain", "", Head(found)[1], Head(found)[2])>>
             \o RemainLines(Tail(found))

\* The line fix_encoding prints about the strategy it took, if any.
MethodLines(p1) ==
    IF p1.strategy = "A"
    THEN <<Line("Method: Full-file codec reversal", "", <<>>, 0)>>
    ELSE IF p1.changes > 0
         THEN <<Line("Method: Line-by-line", "", <<>>, p1.changes)>>
         ELSE <<>>

\* PASS 3 when the scan found something: the count line, then the fallback.
FallbackResult(remaining, r) ==
    [text |-> r.text,
     log  |-> <<Line("Pass 2 left garbled sequences", "", <<>>,
                     SumCounts(remaining))>> \o r.log]

\* PASS 3 of fix_file: the fallback runs only if the scan finds a signature.
FallbackOn(text, remaining) ==
    IF remaining # <<>>
    THEN FallbackResult(remaining, apply_known_replacements(text))
    ELSE [text |-> text, log |-> <<>>]

fallback_pass(text) == FallbackOn(text, scan_remaining_issues(text))

RepairResult(p1, p2, p3) ==
    [fixed |-> p3.text, strategy |-> p1.strategy,
     log |-> MethodLines(p1) \o p2.log \o p3.log]

AfterControlChars(p1, p2) == RepairResult(p1, p2, fallback_pass(p2.text))

AfterFixEncoding(p1) == AfterControlChars(p1, control_char_pass(p1.text))

\* PASS 1 to PASS 3 of fix_file on the text read: the final `fixed`, the
\* strategy fix_encoding took, and the lines printed on the way.
RepairPasses(content) == AfterFixEncoding(fix_encoding(content))

(***************************************************************************)
(* State.                                                                  *)
(*   args, dry_run, success, idx   main's locals (idx: position of the     *)
(*                                 `for filepath in args` loop, 1-based)   *)
(*   pc                            where the process is                    *)
(*   fs                            the file system: path -> file           *)
(*   content, fixed, ret           fix_file's locals and its return value  *)
(*   log                           everything printed so far               *)
(*   exit_status                   the process exit status, -1 while alive *)
(*   args0, fs0, fs_pre            history: sys.argv[1:] and the file      *)
(*                                 system at process start, the file       *)
(*                                 system when fix_file was last entered   *)
(*   fn, fn_in, fn_arg, fn_out     a direct call of one repair function:   *)
(*                                 its name, the text chosen, the argument *)
(*                                 passed and the value returned           *)
(***************************************************************************)
VARIABLES args, dry_run, success, idx, pc, fs, content, fixed, ret, log,
          exit_status, args0, fs0, fs_pre, fn, fn_in, fn_arg, fn_out

vars == <<args, dry_run, success, idx, pc, fs, content, fixed, ret, log,
          exit_status, args0, fs0, fs_pre, fn, fn_in, fn_arg, fn_out>>

driverVars == <<args, dry_run, success, idx, pc, fs, content, fixed, ret, log,
                exit_status, args0, fs0, fs_pre>>

fnVars == <<fn, fn_in, fn_arg, fn_out>>

Range(f) == {f[i] : i \in DOMAIN f}

\* All texts of at most n characters over the alphabet A.
Texts(A, n) == UNION {[1..k -> A] : k \in 0..n}

(***************************************************************************)
(* The file system.  A file is the text open(..., encoding='utf-8') reads  *)
(* from it; a path holds a regular UTF-8 text file or nothing (files that  *)
(* do not decode, directories and '\r' line ends are outside the model).   *)
(***************************************************************************)
Absent == [exists |-> FALSE, data |-> <<>>]

File(text) == [exists |-> TRUE, data |-> text]

\* backup_path = filepath + '.backup'
Backup(filepath) == filepath \o ".backup"

\* The words an argument list is drawn from: the flag and two file names.
ArgWords == {"--check", "a", "b"}

Paths == ArgWords \cup {Backup(w) : w \in ArgWords}

\* Variant: the arguments of the copy are swapped.
copy2_swapped(fsys, src, dst) == [fsys EXCEPT ![src] = fsys[dst]]

\* shutil.copy2(src, dst)
copy2(fsys, src, dst) == [fsys EXCEPT ![dst] = fsys[src]]

\* open(filepath, 'w'): the file is created or truncated
open_w(fsys, filepath) == [fsys EXCEPT ![filepath] = File(<<>>)]

\* f.write(text) and the close at the end of the with block
write(fsys, filepath, text) == [fsys EXCEPT ![filepath] = File(text)]

(***************************************************************************)
(* main                                                                    *)
(***************************************************************************)
\* '--check' in args
HasCheck(a) == "--check" \in Range(a)

\* args.remove('--check'): the first occurrence only
RemoveCheck(a) ==
    LET i == CHOOSE k \in 1..Len(a) :
                 a[k] = "--check" /\ \A m \in 1..(k - 1) : a[m] # "--check"
    IN  SubSeq(a, 1, i - 1) \o SubSeq(a, i + 1, Len(a))

\* main up to the loop: usage and sys.exit(1), or the flag scan.
MainStart ==
    /\ pc = "main"
    /\ IF args = <<>>
       THEN /\ log' = log \o <<Line("Usage", "", <<>>, 0)>>
            /\ exit_status' = 1
            /\ pc' = "exit"
            /\ UNCHANGED <<args, dry_run, success, idx>>
       ELSE /\ dry_run' = HasCheck(args)
            /\ args' = IF HasCheck(args) THEN RemoveCheck(args) ELSE args
            /\ log' = IF HasCheck(args)
                      THEN log \o <<Line("DRY RUN MODE", "", <<>>, 0)>>
                      ELSE log
            /\ success' = TRUE
            /\ idx' = 1
            /\ pc' = "loop"
            /\ UNCHANGED exit_status
    /\ UNCHANGED <<fs, content, fixed, ret, args0, fs0, fs_pre>>
    /\ UNCHANGED fnVars

\* `for filepath in args`: the next file is handed to fix_file.
LoopCall ==
    /\ pc = "loop"
    /\ idx <= Len(args)
    /\ pc' = "fix_file"
    /\ fs_pre' = fs
    /\ UNCHANGED <<args, dry_run, success, idx, fs, content, fixed, ret, log,
                   exit_status, args0, fs0>>
    /\ UNCHANGED fnVars

\* The loop is over: the summary is printed and main returns; no sys.exit
\* follows, so the interpreter exits with status 0.
LoopEnd ==
    /\ pc = "loop"
    /\ idx > Len(args)
    /\ log' = Append(log, IF success
                          THEN Line("All done!", "", <<>>, 0)
                          ELSE Line("Some files had errors.", "", <<>>, 0))
    /\ exit_status' = 0
    /\ pc' = "exit"
    /\ UNCHANGED <<args, dry_run, success, idx, fs, content, fixed, ret,
                   args0, fs0, fs_pre>>
    /\ UNCHANGED fnVars

\* Variant: success is overwritten by each file's result.
AggregateLast(ok, r) == r

\* `if not fix_file(...): success = False`: the batch status after one file.
Aggregate(ok, r) == IF ~r THEN FALSE ELSE ok

\* `if not fix_file(filepath, dry_run): success = False`, then the next file.
LoopReturn ==
    /\ pc = "ret"
    /\ success' = Aggregate(success, ret)
    /\ idx' = idx + 1
    /\ pc' = "loop"
    /\ UNCHANGED <<args, dry_run, fs, content, fixed, ret, log, exit_status,
                   args0, fs0, fs_pre>>
    /\ UNCHANGED fnVars

(***************************************************************************)
(* fix_file                                                                *)
(***************************************************************************)
filepath == args[idx]

\* Variant: the dry-run flag is not looked at.
StopsBeforeWriteNever(dry) == FALSE

\* `if dry_run:` - whether fix_file stops before the backup and the write.
StopsBeforeWrite(dry) == dry

\* The path does not exist: the error is printed and False returned.
FixFileMissing ==
    /\ pc = "fix_file"
    /\ ~fs[filepath].exists
    /\ log' = Append(log, Line("ERROR: File not found", filepath, <<>>, 0))
    /\ ret' = FALSE
    /\ pc' = "ret"
    /\ UNCHANGED <<args, dry_run, success, idx, fs, content, fixed,
                   exit_status, args0, fs0, fs_pre>>
    /\ UNCHANGED fnVars

\* Variant: the warning gives the total only, not the patterns.
WarningLinesTotalOnly(final_remaining) ==
    IF final_remaining # <<>>
    THEN <<Line("WARNING: garbled sequences remain", "", <<>>,
                SumCounts(final_remaining))>>
    ELSE <<>>

\* The final scan's warning: the total, then each remaining pattern.
WarningLines(final_remaining) ==
    IF final_remaining # <<>>
    THEN <<Line("WARNING: garbled sequences remain", "", <<>>,
                SumCounts(final_remaining))>> \o RemainLines(final_remaining)
    ELSE <<>>

\* Variant: the `content == fixed` return is missing.
FixFileOutcomeNoEarlyReturn(read, p, dry, path) ==
    [fixed |-> p.fixed, returns |-> StopsBeforeWrite(dry),
     log |-> <<Line("Processing", path, <<>>, 0)>> \o p.log
                 \o WarningLines(scan_remaining_issues(p.fixed))]

\* fix_file from RESULTS on, given the text read and the passes' result p:
\* what is printed, and whether it returns here (ret) or goes on to the backup.
FixFileOutcome(read, p, dry, path) ==
    IF read = p.fixed
    THEN [fixed |-> p.fixed, returns |-> TRUE,
          log |-> <<Line("Processing", path, <<>>, 0)>> \o p.log
                      \o <<Line("No encoding issues found.", "", <<>>, 0)>>]
    ELSE [fixed |-> p.fixed, returns |-> StopsBeforeWrite(dry),
          log |-> <<Line("Processing", path, <<>>, 0)>> \o p.log
                      \o <<Line("Characters collapsed", "", <<>>,
                                Len(read) - Len(p.fixed)),
                           Line("File size", "", <<>>, Len(p.fixed))>>
                      \o WarningLines(scan_remaining_issues(p.fixed))
                      \o (IF StopsBeforeWrite(dry)
                          THEN <<Line("DRY RUN - no changes written", "", <<>>, 0)>>
                          ELSE <<>>)]

FixFileRun(read, dry, path) == FixFileOutcome(read, RepairPasses(read), dry, path)

FixFileStep(r) ==
    /\ fixed' = r.fixed
    /\ log' = log \o r.log
    /\ ret' = IF r.returns THEN TRUE ELSE ret
    /\ pc' = IF r.returns THEN "ret" ELSE "backup"

\* The file is read, the passes run, the results are printed; fix_file returns
\* True (nothing changed, or a dry run) or goes on to the backup.
FixFileProcess ==
    /\ pc = "fix_file"
    /\ fs[filepath].exists
    /\ content' = fs[filepath].data
    /\ FixFileStep(FixFileRun(fs[filepath].data, dry_run, filepath))
    /\ UNCHANGED <<args, dry_run, success, idx, fs, exit_status, args0, fs0,
                   fs_pre>>
    /\ UNCHANGED fnVars

\* shutil.copy2(filepath, backup_path)
FixFileBackup ==
    /\ pc = "backup"
    /\ fs' = copy2(fs, filepath, Backup(filepath))
    /\ log' = Append(log, Line("Backup", Backup(filepath), <<>>, 0))
    /\ pc' = "open"
    /\ UNCHANGED <<args, dry_run, success, idx, content, fixed, ret,
                   exit_status, args0, fs0, fs_pre>>
    /\ UNCHANGED fnVars

\* open(filepath, 'w', encoding='utf-8')
FixFileOpen ==
    /\ pc = "open"
    /\ fs' = open_w(fs, filepath)
    /\ pc' = "write"
    /\ UNCHANGED <<args, dry_run, success, idx, content, fixed, ret, log,
                   exit_status, args0, fs0, fs_pre>>
    /\ UNCHANGED fnVars

\* f.write(fixed), the file is closed, fix_file returns True
FixFileWrite ==
    /\ pc = "write"
    /\ fs' = write(fs, filepath, fixed)
    /\ log' = Append(log, Line("FIXED successfully", "", <<>>, 0))
    /\ ret' = TRUE
    /\ pc' = "ret"
    /\ UNCHANGED <<args, dry_run, success, idx, content, fixed, exit_status,
                   args0, fs0, fs_pre>>
    /\ UNCHANGED fnVars

(***************************************************************************)
(* A direct call of one repair function on a chosen text.                  *)
(***************************************************************************)
\* The corruption the program is written against (module docstring): the
\* UTF-8 bytes of a text read as Windows-1252.  Fails when a byte has no
\* Windows-1252 character.
Garble(text) ==
    LET b == EncodeUtf8(text)
    IN  IF \A i \in 1..Len(b) : DecodeCp1252Byte(b[i]) >= 0
        THEN Ok([i \in 1..Len(b) |-> DecodeCp1252Byte(b[i])])
        ELSE Fail

CallFixMojibakeSegment ==
    /\ fn = "idle"
    /\ fn' = "fix_mojibake_segment"
    /\ fn_arg' = fn_in
    /\ fn_out' = [text |-> fix_mojibake_segment(fn_in), strategy |-> ""]
    /\ UNCHANGED fn_in
    /\ UNCHANGED driverVars

CallFixLineSegments ==
    /\ fn = "idle"
    /\ fn' = "fix_line_segments"
    /\ fn_arg' = fn_in
    /\ fn_out' = [text |-> fix_line_segments(fn_in), strategy |-> ""]
    /\ UNCHANGED fn_in
    /\ UNCHANGED driverVars

\* fix_encoding on the garbled form of the chosen text.
CallFixEncoding ==
    /\ fn = "idle"
    /\ Garble(fn_in).ok
    /\ fn' = "fix_encoding"
    /\ fn_arg' = Garble(fn_in).val
    /\ LET r == fix_encoding(Garble(fn_in).val)
       IN  fn_out' = [text |-> r.text, strategy |-> r.strategy]
    /\ UNCHANGED fn_in
    /\ UNCHANGED driverVars

(***************************************************************************)
(* Initial states and specifications.                                      *)
(***************************************************************************)
\* The characters texts are enumerated over: '\n', 'A', U+0090 (a C1 control),
\* U+00A9, U+00C2, U+00C3, U+0192 (Windows-1252 byte 0x83).
Alphabet == {10, 65, 144, 169, 194, 195, 402}

\* File contents of a batch run: clean ASCII; a double-encoded e-acute; the
\* same followed by a stray U+00A9 (no codec reverses it); a triple-encoded
\* e-acute.
SampleContents ==
    {<<65>>, <<195, 169>>, <<195, 169, 169>>, <<195, 402, 194, 169>>}

\* The garbled side of every entry of the two substitution tables.
TableContents ==
    {replacements[i].garbled : i \in DOMAIN replacements}
        \cup {control_char_fixes[i].garbled : i \in DOMAIN control_char_fixes}

FnIdle ==
    /\ fn = "off"
    /\ fn_in = <<>>
    /\ fn_arg = <<>>
    /\ fn_out = [text |-> <<>>, strategy |-> ""]

\* The process starts in main with an argument list and a file system: either
\* any argument list over sample files, or one file with any content.
Init ==
    /\ \/ /\ args \in Texts(ArgWords, MaxArgs)
          /\ \E fa, fb \in {Absent} \cup {File(c) : c \in SampleContents} :
                 fs = [p \in Paths |->
                          IF p = "a" THEN fa ELSE IF p = "b" THEN fb ELSE Absent]
       \/ /\ args \in {<<"a">>, <<"--check", "a">>}
          /\ \E c \in Texts(Alphabet, MaxLen) \cup TableContents :
                 fs = [p \in Paths |-> IF p = "a" THEN File(c) ELSE Absent]
    /\ dry_run = FALSE
    /\ success = TRUE
    /\ idx = 1
    /\ pc = "main"
    /\ content = <<>>
    /\ fixed = <<>>
    /\ ret = TRUE
    /\ log = <<>>
    /\ exit_status = -1
    /\ args0 = args
    /\ fs0 = fs
    /\ fs_pre = fs
    /\ FnIdle

Next ==
    \/ MainStart
    \/ LoopCall
    \/ LoopEnd
    \/ LoopReturn
    \/ FixFileMissing
    \/ FixFileProcess
    \/ FixFileBackup
    \/ FixFileOpen
    \/ FixFileWrite

Spec == Init /\ [][Next]_vars

\* One repair function is called once on any text over the alphabet.
InitFn ==
    /\ fn = "idle"
    /\ fn_in \in Texts(Alphabet, MaxLen)
    /\ fn_arg = <<>>
    /\ fn_out = [text |-> <<>>, strategy |-> ""]
    /\ args = <<>>
    /\ dry_run = FALSE
    /\ success = TRUE
    /\ idx = 1
    /\ pc = "off"
    /\ fs = [p \in Paths |-> Absent]
    /\ content = <<>>
    /\ fixed = <<>>
    /\ ret = TRUE
    /\ log = <<>>
    /\ exit_status = -1
    /\ args0 = <<>>
    /\ fs0 = fs
    /\ fs_pre = fs

NextFn ==
    \/ CallFixMojibakeSegment
    \/ CallFixLineSegments
    \/ CallFixEncoding

SpecFn == InitFn /\ [][NextFn]_vars

(***************************************************************************)
(* Properties.                                                             *)
(***************************************************************************)
\* The files of the invocation: sys.argv[1:] without the first '--check'.
FileList == IF "--check" \in Range(args0) THEN RemoveCheck(args0) ELSE args0

\* The lines printed since fix_file was last entered on an existing file.
CallLog ==
    LET last == CHOOSE i \in 1..Len(log) :
                    /\ log[i].msg = "Processing"
                    /\ \A j \in (i + 1)..Len(log) : log[j].msg # "Processing"
    IN  SubSeq(log, last, Len(log))

Printed(lines, m) == \E i \in 1..Len(lines) : lines[i].msg = m

\* A known garbled-prefix signature occurs in the text.
HasResidue(text) ==
    \E k \in DOMAIN known_garbled : Contains(text, known_garbled[k])

IsClean(text) == \A i \in 1..Len(text) : text[i] < 128

\* fix_file has just returned from a call that found its file.
ReturnedFound == pc = "ret" /\ fs_pre[filepath].exists

\* C1: for a non-empty argument list the exit status is non-zero if a listed
\* file was not found, and zero only if no file was reported missing.
C1_ExitStatusTellsMissing ==
    (pc = "exit" /\ args0 # <<>>) =>
        /\ (\E i \in 1..Len(FileList) : ~fs0[FileList[i]].exists)
               => exit_status # 0
        /\ exit_status = 0
               => \A i \in 1..Len(FileList) : fs0[FileList[i]].exists

\* C2: with '--check' anywhere in the argument list, no file of the file
\* system is ever created or changed: no backup appears and every path keeps
\* the content it had before the run.
C2_DryRunTouchesNothing ==
    ("--check" \in Range(args0)) =>
        \A p \in Paths : fs[p] = fs0[p]

\* C2 witness: a dry run has ended after reporting changes it did not write.
C2_Witness ==
    /\ pc = "exit"
    /\ "--check" \in Range(args0)
    /\ Printed(log, "DRY RUN - no changes written")

\* C3: in a real run on a file the passes change, the backup is taken first
\* and holds the pre-fix content throughout the overwrite, so the original is
\* never absent from both files; when fix_file returns the backup holds the
\* pre-fix content and the file holds the fixed content.
C3_BackupThenWrite ==
    /\ pc = "backup" => fs[filepath] = fs_pre[filepath]
    /\ pc \in {"open", "write"} => fs[Backup(filepath)] = fs_pre[filepath]
    /\ (ReturnedFound /\ ~dry_run /\ fixed # fs_pre[filepath].data) =>
           /\ fs[Backup(filepath)] = fs_pre[filepath]
           /\ fs[filepath] = File(fixed)

\* C3 witness: a real run has rewritten a file.
C3_Witness ==
    /\ ReturnedFound
    /\ ~dry_run
    /\ fixed # fs_pre[filepath].data
    /\ fs[Backup(filepath)].exists

IsVisit(line) == line.msg \in {"Processing", "ERROR: File not found"}

\* The paths fix_file was called on, in the order of the calls.
Visited == [i \in 1..Len(SelectSeq(log, IsVisit)) |-> SelectSeq(log, IsVisit)[i].label]

\* C4: a missing file does not stop the batch: when main ends, fix_file has
\* been called on every file of the list, in list order, and the summary says
\* 'Some files had errors.' exactly when some file was missing.
C4_BatchContinues ==
    (pc = "exit" /\ args0 # <<>>) =>
        /\ Visited = FileList
        /\ log[Len(log)].msg \in {"All done!", "Some files had errors."}
        /\ (log[Len(log)].msg = "Some files had errors.")
               <=> (\E i \in 1..Len(FileList) : ~fs0[FileList[i]].exists)

\* C4 witness: a batch has ended in which an existing file follows a missing one.
C4_Witness ==
    /\ pc = "exit"
    /\ \E i, j \in 1..Len(FileList) :
           i < j /\ ~fs0[FileList[i]].exists /\ fs0[FileList[j]].exists

\* C5: on a file with no code point >= 0x80 the passes return the content
\* unchanged and fix_file takes the 'No encoding issues found.' path: it
\* returns True and leaves the file system as it was (no write, no backup),
\* dry run or not.
C5_CleanInputUntouched ==
    /\ (ReturnedFound /\ IsClean(fs_pre[filepath].data)) =>
           /\ content = fs_pre[filepath].data
           /\ fixed = content
           /\ ret = TRUE
           /\ fs = fs_pre
           /\ log[Len(log)].msg = "No encoding issues found."
    /\ pc \in {"backup", "open", "write"} => ~IsClean(fs_pre[filepath].data)

\* C5 witness: a real run has returned from a non-empty clean file.
C5_Witness ==
    /\ ReturnedFound
    /\ IsClean(fs_pre[filepath].data)
    /\ Len(fs_pre[filepath].data) > 1
    /\ ~dry_run

\* C6: for each entry of the known-replacement table, a file that holds only
\* the entry's garbled sequence ends as exactly the entry's correct character,
\* and the count reported for the entry is the number of occurrences in the
\* input (one).
C6_TableRoundTrip ==
    \A k \in DOMAIN replacements :
        (ReturnedFound /\ fs_pre[filepath].data = replacements[k].garbled) =>
            /\ fixed = replacements[k].correct
            /\ \E i \in 1..Len(CallLog) :
                   /\ CallLog[i].msg = "Replaced"
                   /\ CallLog[i].label = replacements[k].desc
                   /\ CallLog[i].n = Count(fs_pre[filepath].data,
                                           replacements[k].garbled)

\* Strategy A took the garbled text back to the original, and shortened it.
StrategyARestores ==
    /\ fn_out.strategy = "A"
    /\ Len(fn_out.text) < Len(fn_arg)
    /\ fn_out.text = fn_in

\* C7 as stated: for every original text, fix_encoding on its double-encoded
\* form returns through Strategy A a strictly shorter text equal to the original.
C7_EveryTextRestored == fn = "fix_encoding" => StrategyARestores

\* C7 amended: the same for every original text that holds at least one code
\* point >= 0x80 (and whose UTF-8 bytes all have a Windows-1252 character).
C7_NonAsciiTextRestored ==
    (fn = "fix_encoding" /\ ~IsClean(fn_in)) => StrategyARestores

\* C7 witness: a text mixing ASCII and non-ASCII characters was restored.
C7_Witness ==
    /\ fn = "fix_encoding"
    /\ \E i, j \in 1..Len(fn_in) : fn_in[i] < 128 /\ fn_in[j] >= 128
    /\ fn_out.text = fn_in

\* The final warning lists every signature left in `fixed` with its count.
WarnedAll ==
    /\ Printed(CallLog, "WARNING: garbled sequences remain")
    /\ \A k \in DOMAIN known_garbled :
           Contains(fixed, known_garbled[k]) =>
               \E i \in 1..Len(CallLog) :
                   /\ CallLog[i].msg = "remain"
                   /\ CallLog[i].what = known_garbled[k]
                   /\ CallLog[i].n = Count(fixed, known_garbled[k])

\* The write was not held back: True is returned and, in a real run, the
\* file holds `fixed`.
WarnedAndWritten ==
    /\ WarnedAll
    /\ ret = TRUE
    /\ ~dry_run => (fs[filepath] = File(fixed)
                    /\ Printed(CallLog, "FIXED successfully"))

\* C8 as stated: whenever signatures remain after all passes, the warning is
\* printed and the file is still written.
C8_ResidueAlwaysWarned ==
    (ReturnedFound /\ HasResidue(fixed)) => WarnedAndWritten

\* C8 amended: the same whenever the passes changed the content.
C8_ResidueWarnedWhenChanged ==
    (ReturnedFound /\ HasResidue(fixed) /\ fixed # content) => WarnedAndWritten

\* C8 witness: a real run wrote a file in which a signature remains.
C8_Witness ==
    /\ ReturnedFound
    /\ HasResidue(fixed)
    /\ fixed # content
    /\ ~dry_run

\* Position i starts a segment when a segment may start at characters >= lead:
\* line[i] >= lead and no character >= lead precedes it in its run of
\* characters >= 0x80.
StartsRun(line, i, lead) ==
    /\ line[i] >= lead
    /\ \A j \in 1..(i - 1) :
           (\A k \in j..(i - 1) : line[k] >= 128) => line[j] < lead

\* Position i lies in a segment started before it.
InsideRun(line, i, lead) ==
    \E j \in 1..(i - 1) :
        StartsRun(line, j, lead) /\ \A k \in j..i : line[k] >= 128

\* The last position of the run of characters >= 0x80 that holds position i.
RunLast(line, i) ==
    CHOOSE e \in i..Len(line) :
        /\ \A k \in i..e : line[k] >= 128
        /\ e = Len(line) \/ line[e + 1] < 128

\* What position i contributes to the result.
Piece(line, i, lead) ==
    IF StartsRun(line, i, lead)
    THEN fix_mojibake_segment(SubSeq(line, i, RunLast(line, i)))
    ELSE IF InsideRun(line, i, lead) THEN <<>>
    ELSE <<line[i]>>

RECURSIVE Pieces(_, _, _)
\* The pieces of positions i.. joined left to right.
Pieces(line, i, lead) ==
    IF i > Len(line) THEN <<>>
    ELSE Piece(line, i, lead) \o Pieces(line, i + 1, lead)

IsAscii(c) == c < 128

\* C9 as stated: every maximal run of characters >= 0x80 is replaced by
\* fix_mojibake_segment of the whole run, characters below 0x80 are kept.
C9_MaximalRunsRepaired ==
    fn = "fix_line_segments" =>
        /\ fn_out.text = Pieces(fn_in, 1, 128)
        /\ SelectSeq(fn_out.text, IsAscii) = SelectSeq(fn_in, IsAscii)

\* C9 amended: a segment starts at a character >= 0xC0 and runs over the
\* following characters >= 0x80; it is replaced by fix_mojibake_segment of
\* the segment; every other character is kept, so the characters below 0x80
\* are the same, in the same order.
C9_LeadRunsRepaired ==
    fn = "fix_line_segments" =>
        /\ fn_out.text = Pieces(fn_in, 1, 192)
        /\ SelectSeq(fn_out.text, IsAscii) = SelectSeq(fn_in, IsAscii)

\* C9 witness: a line of an ASCII character, a character in 0x80-0xBF and a
\* segment that was repaired.
C9_Witness ==
    /\ fn = "fix_line_segments"
    /\ Len(fn_in) >= 3
    /\ fn_in[1] < 128
    /\ fn_in[2] >= 128 /\ fn_in[2] < 192
    /\ fn_in[3] >= 192
    /\ fn_out.text # fn_in

\* The value returned once `codec` reversed the input to `once`.
OnceOrTwice(codec, once) ==
    IF /\ Reverse(codec, once).ok
       /\ Reverse(codec, once).val # once
       /\ Len(Reverse(codec, once).val) < Len(once)
    THEN Reverse(codec, once).val
    ELSE once

\* C10: fix_mojibake_segment returns, for the first of Windows-1252 and
\* Latin-1 whose reversal succeeds, the twice-reversed value if the second
\* reversal succeeds, differs and is strictly shorter, else the once-reversed
\* value; the input itself if neither reversal succeeds.
C10_SegmentRepair ==
    fn = "fix_mojibake_segment" =>
        fn_out.text =
            IF Reverse("cp1252", fn_in).ok
            THEN OnceOrTwice("cp1252", Reverse("cp1252", fn_in).val)
            ELSE IF Reverse("latin-1", fn_in).ok
                 THEN OnceOrTwice("latin-1", Reverse("latin-1", fn_in).val)
                 ELSE fn_in

\* C10 witness: a triple-encoded segment was reversed twice.
C10_Witness ==
    /\ fn = "fix_mojibake_segment"
    /\ Reverse("cp1252", fn_in).ok
    /\ Len(fn_out.text) < Len(Reverse("cp1252", fn_in).val)

=============================================================================
